---- MODULE Spec2Model ----
(***************************************************************************)
(* A model of manta/cluster.py: the sparsity score of a cluster            *)
(* assignment (sparsity_score), the selection of a cluster assignment from *)
(* one converged matrix (cluster_hard) or from a sequence of diffusion     *)
(* snapshots (cluster_fuzzy), both reached through cluster_graph, and the  *)
(* hub labelling of edges (central_edge) and nodes (central_node).         *)
(*                                                                         *)
(* A sparsity score is kept as the exact fraction num / den, with          *)
(* den = |E|, and a centroid mean as an exact fraction: the rounding of    *)
(* these floats is not modelled.  A stability fraction, which line 305     *)
(* compares with 0.5, is kept as the float64 that lines 297-301 compute.   *)
(***************************************************************************)
EXTENDS Integers, Naturals, Sequences, FiniteSets, TLC

VARIABLES
    pc,               \* position of the call that is being modelled
    graph,            \* the networkx graph, with its edge and node attributes
    clusters,         \* sparsity_score: the cluster assignment that is scored
    sparsity,         \* sparsity_score: the returned score, or the exception
    min_clusters,     \* cluster_graph: parameter
    max_clusters,     \* cluster_graph: parameter
    method,           \* cluster_graph: the parameter named cluster
    memory,           \* diffusion: the memory flag
    diffs,            \* diffusion: the snapshots, each as the sums of its rows
    scores,           \* cluster_hard, cluster_fuzzy: the scores of the sweep so far
    cur_i,            \* the loop variable i: the cluster count the sweep is at
    cur_j,            \* cluster_fuzzy: the loop variable j of the loop that runs
    difscores,        \* cluster_fuzzy: best score per snapshot
    topscores,        \* cluster_fuzzy: best cluster count per snapshot
    topscore,         \* the selected cluster count
    separating_iters, \* cluster_fuzzy: the snapshots with a best score below -0.5
    sep_clusters,     \* cluster_fuzzy: the label vector per separating snapshot used
    centroids,        \* cluster_fuzzy: the centroids per separating snapshot used
    clusdict,         \* cluster_fuzzy: final cluster -> snapshot -> matched clusters
    clusprobs,        \* cluster_fuzzy: stability fraction per node
    bestcluster,      \* the assignment that is returned
    raised,           \* the exception the call ended in, or "no"
    stdout,           \* the kinds of diagnostic written so far
    scoremat,         \* central_edge: the matrix of the short diffusion run
    percentile,       \* central_edge: parameter
    permutations      \* central_edge: parameter

sparsityVars == <<clusters, sparsity>>

inputVars == <<min_clusters, max_clusters, method, memory, diffs>>

fuzzyVars == <<cur_j, difscores, topscores, separating_iters, sep_clusters, centroids,
               clusdict, clusprobs>>

clusterVars == <<inputVars, scores, cur_i, topscore, fuzzyVars, bestcluster, raised, stdout>>

hubVars == <<scoremat, percentile, permutations>>

vars == <<pc, graph, sparsityVars, clusterVars, hubVars>>

(***************************************************************************)
(* Bounds of the model.                                                    *)
(***************************************************************************)
SpNodes == 3       \* nodes of the graphs that sparsity_score is applied to

(***************************************************************************)
(* Graphs.  A node sits at a matrix position 0..n-1; its identifier is     *)
(* what list(graph.nodes)[i] gives.  An undirected edge is kept once, as   *)
(* the pair graph.edges reports: the endpoint that comes first in the node *)
(* order first.                                                            *)
(***************************************************************************)
Weights == {-1, 1}

Pos(n) == 0 .. (n - 1)

\* list(graph.nodes)[i]
NodeAt(i) == i + 1

\* adj_index / rev_index of cluster_graph
rev_index(n) == [i \in Pos(n) |-> NodeAt(i)]

adj_index(n) == [u \in {NodeAt(i) : i \in Pos(n)} |-> u - 1]

Nodes(n) == {NodeAt(i) : i \in Pos(n)}

Pairs(n) == {e \in Nodes(n) \X Nodes(n) : e[1] < e[2]}

NoAttr == "none"

\* every weighted undirected graph on n nodes, no attribute set yet; npval holds
\* the 'hub p-value' of the nodes that have one
Graphs(n, edgeSets) ==
    {[n |-> n, weight |-> w,
      ehub |-> [e \in DOMAIN w |-> NoAttr],
      erel |-> [e \in DOMAIN w |-> NoAttr],
      nhub |-> [u \in Nodes(n) |-> NoAttr],
      npval |-> [u \in {} |-> 0],
      ncluster |-> [u \in Nodes(n) |-> NoAttr]] :
        w \in UNION {[E -> Weights] : E \in edgeSets}}

Reverse(e) == <<e[2], e[1]>>

(***************************************************************************)
(* sparsity_score                                                          *)
(***************************************************************************)
RECURSIVE SumOver(_, _)
SumOver(S, f) ==
    IF S = {} THEN 0
    ELSE LET x == CHOOSE y \in S : TRUE
         IN f[x] + SumOver(S \ {x}, f)

\* node_ids of one cluster id: np.where(clusters == cluster_id), then rev_index
NodeIds(g, clus, cluster_id) ==
    {rev_index(g.n)[i] : i \in {j \in Pos(g.n) : clus[j] = cluster_id}}

\* graph.subgraph(node_ids).edges, each edge in the orientation the subgraph
\* view reports it in: flip holds the edges it reports the other way round
SubgraphEdges(g, node_ids, flip) ==
    {IF e \in flip THEN Reverse(e) ELSE e :
        e \in {d \in DOMAIN g.weight : d[1] \in node_ids /\ d[2] \in node_ids}}

\* the weight of an edge given in either orientation
WeightOf(g, e) ==
    IF e \in DOMAIN g.weight THEN g.weight[e] ELSE g.weight[Reverse(e)]

\* lines 210-214: a negative edge inside a cluster adds a unit, any other takes one
IntraUnit(w) == IF w < 0 THEN 1 ELSE -1

\* lines 222-226: a positive cut edge adds a unit, any other takes one
CutUnit(w) == IF w > 0 THEN 1 ELSE -1

\* lines 202-214: the edges collected over the clusters and the units they add
RECURSIVE ClusterLoop(_, _, _, _, _)
ClusterLoop(g, clus, ids, flip, acc) ==
    IF ids = {} THEN acc
    ELSE LET cluster_id == CHOOSE c \in ids : TRUE
             cluster == SubgraphEdges(g, NodeIds(g, clus, cluster_id), flip)
             units == SumOver(cluster, [x \in cluster |-> IntraUnit(WeightOf(g, x))])
         IN ClusterLoop(g, clus, ids \ {cluster_id}, flip,
                        [edges |-> acc.edges \cup cluster,
                         units |-> acc.units + units])

\* the variant of line 218 that looks an edge up in one orientation only
CutsOneWay(all_edges, edges) == {e \in all_edges : e \notin edges}

\* lines 215-220: the edges that no cluster's subgraph holds, in either orientation
Cuts(all_edges, edges) ==
    {e \in all_edges : e \notin edges /\ Reverse(e) \notin edges}

\* sparsity_score(graph, clusters, rev_index): the score num / den, or the
\* exception of line 199 on a graph without edges; edges is the local list of
\* that name, the edges found inside the clusters as the subgraphs reported them
sparsity_score(g, clus, flip) ==
    LET all_edges == DOMAIN g.weight
    IN IF all_edges = {}
       THEN [raised |-> "ZeroDivisionError", num |-> 0, den |-> 0, edges |-> {}]
       ELSE LET ids == {clus[i] : i \in Pos(g.n)}
                inside == ClusterLoop(g, clus, ids, flip, [edges |-> {}, units |-> 0])
                cuts == Cuts(all_edges, inside.edges)
                cutUnits == SumOver(cuts, [e \in cuts |-> CutUnit(WeightOf(g, e))])
            IN [raised |-> "no", num |-> inside.units + cutUnits,
                den |-> Cardinality(all_edges), edges |-> inside.edges]

NoScore == [raised |-> "not called", num |-> 0, den |-> 0, edges |-> {}]

\* the float a caller gets
Returned(score) == [num |-> score.num, den |-> score.den]

\* np.argmin over a list of scores with one denominator: the first index (from 0)
\* that holds the lowest score
ArgMin(seq) ==
    CHOOSE a \in 1 .. Len(seq) :
        /\ \A b \in 1 .. Len(seq) : seq[a].num <= seq[b].num
        /\ \A b \in 1 .. (a - 1) : seq[b].num > seq[a].num

(***************************************************************************)
(* Exact fractions.                                                        *)
(***************************************************************************)
RECURSIVE GCD(_, _)
GCD(a, b) == IF b = 0 THEN a ELSE GCD(b, a % b)

Abs(x) == IF x < 0 THEN -x ELSE x

\* n / d in lowest terms, d > 0
Frac(n, d) == LET g == GCD(Abs(n), d) IN [num |-> n \div g, den |-> d \div g]

FracAbsDiff(a, b) == Frac(Abs(a.num * b.den - b.num * a.den), a.den * b.den)

FracLess(a, b) == a.num * b.den < b.num * a.den

RECURSIVE Power(_, _)
Power(b, e) ==
    IF e = 0 THEN 1
    ELSE IF e % 2 = 1 THEN b * Power(b, e - 1)
    ELSE Power(b * b, e \div 2)

(***************************************************************************)
(* float64, for the values in [0, 2) that are whole multiples of 2^-57:    *)
(* the value hi * 2^-28 + lo * 2^-57, with lo below 2^29.  These are the   *)
(* quotients 1 / m for m in 1..16 and the sums of up to m of them.         *)
(***************************************************************************)
Limb == Power(2, 29)

\* the carry from lo into hi
Wide(hi, lo) == [hi |-> hi + lo \div Limb, lo |-> lo % Limb]

RECURSIVE BitLen(_)
BitLen(x) ==
    IF x = 0 THEN 0
    ELSE IF x >= 256 THEN 8 + BitLen(x \div 256)
    ELSE 1 + BitLen(x \div 2)

\* the significant bits of a value
WideBits(x) == IF x.hi > 0 THEN 29 + BitLen(x.hi) ELSE BitLen(x.lo)

\* IEEE 754 round-to-nearest, ties to even, to the 53 significant bits of a
\* float64; sticky says that the exact value lies above x
RoundNearestEven(x, sticky) ==
    LET drop == WideBits(x) - 53
    IN IF drop <= 0 THEN x
       ELSE LET quantum == Power(2, drop)
                rest == x.lo % quantum
                kept == x.lo - rest
                up == \/ 2 * rest > quantum
                      \/ 2 * rest = quantum /\ (sticky \/ (kept \div quantum) % 2 = 1)
            IN Wide(x.hi, IF up THEN kept + quantum ELSE kept)

\* the sum of two float64
DoubleAdd(a, b) == RoundNearestEven(Wide(a.hi + b.hi, a.lo + b.lo), FALSE)

\* the quotient and the remainder of rem * 2^29 by m, for rem < m <= 16, taken
\* in three steps of 10, 10 and 9 bits
LongDivision(rem, m) ==
    LET first == rem * Power(2, 10)
        second == (first % m) * Power(2, 10)
        third == (second % m) * Power(2, 9)
    IN [quotient |-> ((first \div m) * Power(2, 10) + second \div m) * Power(2, 9)
                        + third \div m,
        rem |-> third % m]

\* 1 / m of Python for an int m in 1..16: the quotient, correctly rounded
DoubleInverse(m) ==
    LET low == LongDivision(Power(2, 28) % m, m)
    IN RoundNearestEven([hi |-> Power(2, 28) \div m, lo |-> low.quotient], low.rem # 0)

DoubleLess(a, b) == a.hi < b.hi \/ (a.hi = b.hi /\ a.lo < b.lo)

DoubleZero == [hi |-> 0, lo |-> 0]

DoubleHalf == [hi |-> Power(2, 27), lo |-> 0]

DoubleOne == [hi |-> Power(2, 28), lo |-> 0]

(***************************************************************************)
(* sklearn's KMeans.  A fit of k clusters on the n rows of a matrix gives  *)
(* every row a label in 0..k-1, every label to at least one row; which     *)
(* rows share a label and which number a cluster gets depend on the random *)
(* initialisation, so a fit is any such labelling.  k < 1 or k > n raises  *)
(* ValueError.  A centroid is the mean of its cluster's rows; of a         *)
(* centroid only the mean of its entries is ever used (line 293), which is *)
(* the sum of the row sums of the cluster over (size of the cluster * n).  *)
(***************************************************************************)
KMeansAccepts(k, n) == k \in 1 .. n

KMeansLabels(k, n) ==
    {l \in [Pos(n) -> 0 .. (k - 1)] : \A c \in 0 .. (k - 1) : \E p \in Pos(n) : l[p] = c}

cluster_centers(labels, rows, k, n) ==
    [m \in 0 .. (k - 1) |->
        LET members == {p \in Pos(n) : labels[p] = m}
        IN Frac(SumOver(members, rows), Cardinality(members) * n)]

(***************************************************************************)
(* cluster_graph, lines 60-76: the call of diffusion and the dispatch on   *)
(* its memory flag.                                                        *)
(***************************************************************************)
Sentinel == 100

KMeansName == "KMeans"

Methods == {KMeansName, "DBSCAN"}

Append1(seq, x) == seq \o <<x>>

Raise(e) ==
    /\ raised' = e
    /\ pc' = "raised"

ClusterGraph ==
    /\ pc = "cluster_graph"
    /\ pc' = IF memory THEN "cluster_fuzzy" ELSE "cluster_hard"
    /\ UNCHANGED <<graph, sparsityVars, clusterVars, hubVars>>

\* lines 77-81: the returned assignment becomes the node attribute 'cluster'
ClusterGraphLabel ==
    /\ pc = "returned"
    /\ graph' = [graph EXCEPT !.ncluster =
                    [u \in Nodes(graph.n) |-> bestcluster[adj_index(graph.n)[u]]]]
    /\ pc' = "done"
    /\ UNCHANGED <<sparsityVars, clusterVars, hubVars>>

(***************************************************************************)
(* cluster_hard                                                            *)
(***************************************************************************)
\* lines 323-327: the score of a random assignment to two clusters
HardBaseline ==
    /\ pc = "cluster_hard"
    /\ \E randomclust \in [Pos(graph.n) -> {0, 1}], flip \in SUBSET DOMAIN graph.weight :
          LET score == sparsity_score(graph, randomclust, flip)
          IN IF score.raised # "no"
             THEN Raise(score.raised) /\ UNCHANGED <<scores, stdout>>
             ELSE /\ scores' = <<Returned(score)>>
                  /\ stdout' = stdout \cup {"random score"}
                  /\ pc' = "hard sweep"
                  /\ UNCHANGED raised
    /\ cur_i' = min_clusters
    /\ UNCHANGED <<graph, sparsityVars, hubVars, inputVars, topscore, fuzzyVars, bestcluster>>

\* lines 328-334: one turn of the loop over the cluster counts
HardSweep ==
    /\ pc = "hard sweep"
    /\ method = KMeansName
    /\ cur_i <= max_clusters
    /\ IF ~KMeansAccepts(cur_i, graph.n)
       THEN Raise("ValueError") /\ UNCHANGED <<scores, cur_i>>
       ELSE /\ \E labels \in KMeansLabels(cur_i, graph.n),
                  flip \in SUBSET DOMAIN graph.weight :
                    scores' = Append1(scores, Returned(sparsity_score(graph, labels, flip)))
            /\ cur_i' = cur_i + 1
            /\ UNCHANGED <<pc, raised>>
    /\ UNCHANGED <<graph, sparsityVars, hubVars, inputVars, topscore, fuzzyVars, bestcluster, stdout>>

\* line 335: int(np.argmin(scores)) + min_clusters - 1
HardTopscore(scs, min) == ArgMin(scs) - 1 + min - 1

\* lines 335-343 and 348: the selection, the fit at the selected count, the return
HardSelect ==
    /\ pc = "hard sweep"
    /\ method = KMeansName
    /\ cur_i > max_clusters
    /\ LET top == HardTopscore(scores, min_clusters)
       IN /\ topscore' = top
          /\ stdout' = stdout \cup
                {IF top >= min_clusters THEN "lowest score" ELSE "random best warning"}
          /\ IF ~KMeansAccepts(top, graph.n)
             THEN Raise("ValueError") /\ UNCHANGED bestcluster
             ELSE /\ bestcluster' \in KMeansLabels(top, graph.n)
                  /\ pc' = "returned"
                  /\ UNCHANGED raised
    /\ UNCHANGED <<graph, sparsityVars, hubVars, inputVars, scores, cur_i, fuzzyVars>>

\* lines 344-348: another method; bestcluster is returned without ever being bound
HardUnsupported ==
    /\ pc = "hard sweep"
    /\ method # KMeansName
    /\ stdout' = stdout \cup {"unsupported warning"}
    /\ Raise("UnboundLocalError")
    /\ UNCHANGED <<graph, sparsityVars, hubVars, inputVars, scores, cur_i, topscore, fuzzyVars,
                   bestcluster>>

(***************************************************************************)
(* cluster_fuzzy                                                           *)
(***************************************************************************)
\* lines 249-253: one turn of the loop over the cluster counts, on snapshot cur_j
FuzzySweep ==
    /\ pc = "cluster_fuzzy"
    /\ cur_j < Len(diffs)
    /\ method = KMeansName
    /\ cur_i <= max_clusters
    /\ IF ~KMeansAccepts(cur_i, graph.n)
       THEN Raise("ValueError") /\ UNCHANGED <<scores, cur_i>>
       ELSE \E labels \in KMeansLabels(cur_i, graph.n),
               flip \in SUBSET DOMAIN graph.weight :
                 LET score == sparsity_score(graph, labels, flip)
                 IN IF score.raised # "no"
                    THEN Raise(score.raised) /\ UNCHANGED <<scores, cur_i>>
                    ELSE /\ scores' = Append1(scores, Returned(score))
                         /\ cur_i' = cur_i + 1
                         /\ UNCHANGED <<pc, raised>>
    /\ UNCHANGED <<graph, sparsityVars, hubVars, inputVars, topscore, fuzzyVars, bestcluster, stdout>>

\* lines 254-259: the best cluster count and score of snapshot cur_j
FuzzyTop ==
    /\ pc = "cluster_fuzzy"
    /\ cur_j < Len(diffs)
    /\ method = KMeansName
    /\ cur_i > max_clusters
    /\ topscore' = ArgMin(scores) - 1 + min_clusters
    /\ stdout' = stdout \cup {"iteration lowest score"}
    /\ difscores' = Append1(difscores, scores[ArgMin(scores)])
    /\ topscores' = Append1(topscores, topscore')
    /\ cur_j' = cur_j + 1
    /\ cur_i' = min_clusters
    /\ scores' = <<>>
    /\ UNCHANGED <<pc, graph, sparsityVars, hubVars, inputVars, separating_iters, sep_clusters,
                   centroids, clusdict, clusprobs, bestcluster, raised>>

\* lines 248-258 with another method: no score is computed, and line 258 takes
\* np.argmin of the empty list
FuzzyUnsupported ==
    /\ pc = "cluster_fuzzy"
    /\ cur_j < Len(diffs)
    /\ method # KMeansName
    /\ Raise("ValueError")
    /\ UNCHANGED <<graph, sparsityVars, hubVars, inputVars, scores, cur_i, topscore, fuzzyVars,
                   bestcluster, stdout>>

\* line 260: the difscores below the quality threshold of -0.5
Separating(score) == 2 * score.num < -score.den

\* np.where(np.array(difscores) < -0.5)[0]: the snapshots (from 0), ascending
RECURSIVE WhereSeparating(_, _)
WhereSeparating(ds, x) ==
    IF x > Len(ds) THEN <<>>
    ELSE (IF Separating(ds[x]) THEN <<x - 1>> ELSE <<>>) \o WhereSeparating(ds, x + 1)

\* lines 260-268: the separating snapshots and the cluster count of the last one
FuzzySelect ==
    /\ pc = "cluster_fuzzy"
    /\ cur_j = Len(diffs)
    /\ separating_iters' = WhereSeparating(difscores, 1)
    /\ stdout' = stdout \cup {"iterations used"}
    /\ IF separating_iters' = <<>>
       THEN Raise("IndexError") /\ UNCHANGED topscore
       ELSE /\ topscore' = topscores[separating_iters'[Len(separating_iters')] + 1]
            /\ pc' = "fuzzy fit"
            /\ UNCHANGED raised
    /\ centroids' = <<>>
    /\ sep_clusters' = <<>>
    /\ UNCHANGED <<graph, sparsityVars, hubVars, inputVars, scores, cur_i, cur_j, difscores,
                   topscores, clusdict, clusprobs, bestcluster>>

\* lines 272-277: one turn of the loop over separating_iters[1:]; the labels come
\* from one fit (line 275) and the centroids from another (line 276)
FuzzyFit ==
    /\ pc = "fuzzy fit"
    /\ Len(sep_clusters) + 1 < Len(separating_iters)
    /\ LET snap == separating_iters[Len(sep_clusters) + 2]
           k == topscores[snap + 1]
       IN /\ cur_j' = snap
          /\ \E predicted \in KMeansLabels(k, graph.n), fitted \in KMeansLabels(k, graph.n) :
                /\ sep_clusters' = Append1(sep_clusters, predicted)
                /\ centroids' = Append1(centroids,
                                        cluster_centers(fitted, diffs[snap + 1], k, graph.n))
    /\ UNCHANGED <<pc, graph, sparsityVars, hubVars, inputVars, scores, cur_i, topscore, difscores,
                   topscores, separating_iters, clusdict, clusprobs, bestcluster, raised,
                   stdout>>

\* lines 289-294: diff.index(min(diff)), the first core centroid at the least
\* absolute mean difference from the centroid iter
Closest(iter, core_centers) ==
    CHOOSE c \in DOMAIN core_centers :
        /\ \A b \in DOMAIN core_centers :
              ~FracLess(FracAbsDiff(iter, core_centers[b]), FracAbsDiff(iter, core_centers[c]))
        /\ \A b \in DOMAIN core_centers :
              b < c => FracLess(FracAbsDiff(iter, core_centers[c]),
                                FracAbsDiff(iter, core_centers[b]))

\* lines 280-294: final cluster -> earlier snapshot (from 0) -> the clusters of that
\* snapshot whose centroid is closest to the final cluster's
MatchCentroids(cents, top) ==
    [key \in 0 .. (top - 1) |->
        [x \in 0 .. (Len(cents) - 2) |->
            {m \in DOMAIN cents[x + 1] : Closest(cents[x + 1][m], cents[Len(cents)]) = key}]]

\* line 301: 1/(len(sep_clusters)-1), the share one matching snapshot adds
Share(seps) == DoubleInverse(Len(seps) - 1)

\* lines 297-301: the values that clusprobs[p] has at first and after each of the
\* first x turns of the inner loop
RECURSIVE Accumulated(_, _, _, _)
Accumulated(seps, cdict, p, x) ==
    IF x = 0 THEN <<DoubleZero>>
    ELSE LET before == Accumulated(seps, cdict, p, x - 1)
             prob == before[Len(before)]
         IN Append(before, IF seps[x][p] \in cdict[seps[Len(seps)][p]][x - 1]
                           THEN DoubleAdd(prob, Share(seps)) ELSE prob)

\* clusprobs[p] after the inner loop
Stability(seps, cdict, p) == Accumulated(seps, cdict, p, Len(seps) - 1)[Len(seps)]

\* line 305: clusprobs < 0.5
IsFuzzy(prob) == DoubleLess(prob, DoubleHalf)

\* lines 280-306: the matching of the centroids, the stability fractions, the
\* sentinel.  Line 305 writes through bestcluster into sep_clusters[-1], which is
\* not read again; sep_clusters keeps the labels of the fit here.
FuzzyMatch ==
    /\ pc = "fuzzy fit"
    /\ Len(sep_clusters) + 1 = Len(separating_iters)
    /\ clusdict' = MatchCentroids(centroids, topscore)
    /\ IF centroids = <<>>
       THEN Raise("IndexError") /\ UNCHANGED <<clusprobs, bestcluster>>
       ELSE /\ clusprobs' = [p \in Pos(graph.n) |-> Stability(sep_clusters, clusdict', p)]
            /\ bestcluster' = [p \in Pos(graph.n) |->
                                 IF IsFuzzy(clusprobs'[p]) THEN Sentinel
                                 ELSE sep_clusters[Len(sep_clusters)][p]]
            /\ pc' = "returned"
            /\ UNCHANGED raised
    /\ UNCHANGED <<graph, sparsityVars, hubVars, inputVars, scores, cur_i, topscore, cur_j, difscores,
                   topscores, separating_iters, sep_clusters, centroids, stdout>>

(***************************************************************************)
(* Specifications.                                                         *)
(***************************************************************************)
ClNodes == 3       \* nodes of the graphs that are clustered
MaxK == 2          \* largest max_clusters
MaxSnap == 4       \* most snapshots of a diffusion sequence

\* the graphs that are clustered: the paths and their parts, any signs
ClEdgeSets == SUBSET {e \in Pairs(ClNodes) : e[2] = e[1] + 1}

\* what diffusion returns (manta.perms): the memory flag and, with it, every
\* snapshot; a snapshot enters cluster_fuzzy by the sums of its rows only
RowSums(x) == [p \in Pos(ClNodes) |-> (p * x) % ClNodes]

DiffusionSequences == {[x \in 1 .. len |-> RowSums(x)] : len \in 1 .. MaxSnap}

SparsityIdle ==
    /\ clusters = <<>>
    /\ sparsity = NoScore

HubIdle ==
    /\ scoremat = <<>>
    /\ percentile = 0
    /\ permutations = 0

ClusterLocalsInit ==
    /\ scores = <<>>
    /\ cur_i = min_clusters
    /\ cur_j = 0
    /\ difscores = <<>>
    /\ topscores = <<>>
    /\ topscore = 0
    /\ separating_iters = <<>>
    /\ sep_clusters = <<>>
    /\ centroids = <<>>
    /\ clusdict = <<>>
    /\ clusprobs = <<>>
    /\ bestcluster = <<>>
    /\ raised = "no"
    /\ stdout = {}

ClusterIdle ==
    /\ min_clusters = 0
    /\ max_clusters = 0
    /\ method = NoAttr
    /\ memory = FALSE
    /\ diffs = <<>>
    /\ ClusterLocalsInit

\* a call of cluster_graph on one of the graphs, with one of the sequences when
\* diffusion keeps the snapshots
CallOfClusterGraph(graphs, sequences) ==
    /\ pc = "cluster_graph"
    /\ graph \in graphs
    /\ SparsityIdle
    /\ HubIdle
    /\ min_clusters \in 1 .. MaxK
    /\ max_clusters \in min_clusters .. MaxK
    /\ method \in Methods
    /\ memory \in BOOLEAN
    /\ diffs \in (IF memory THEN sequences ELSE {<<>>})
    /\ ClusterLocalsInit

InitCluster == CallOfClusterGraph(Graphs(ClNodes, ClEdgeSets), DiffusionSequences)

NextCluster ==
    \/ ClusterGraph
    \/ HardBaseline
    \/ HardSweep
    \/ HardSelect
    \/ HardUnsupported
    \/ FuzzySweep
    \/ FuzzyTop
    \/ FuzzyUnsupported
    \/ FuzzySelect
    \/ FuzzyFit
    \/ FuzzyMatch
    \/ ClusterGraphLabel

SpecCluster == InitCluster /\ [][NextCluster]_vars

(***************************************************************************)
(* Long diffusion sequences on the graphs of two nodes.  Each snapshot but *)
(* the last has rows of one sum, 0 and 2 by turns, so that its centroids   *)
(* coincide and lie at one of the two centroids of the last snapshot.      *)
(***************************************************************************)
StNodes == 2       \* nodes of the graphs
StSnap == 14       \* most snapshots of a long diffusion sequence

StRowSums(x, len) ==
    [p \in Pos(StNodes) |-> IF x = len THEN 2 * p ELSE 2 * (x % 2)]

StDiffusionSequences == {[x \in 1 .. len |-> StRowSums(x, len)] : len \in 1 .. StSnap}

InitStability ==
    CallOfClusterGraph(Graphs(StNodes, SUBSET Pairs(StNodes)), StDiffusionSequences)

SpecStability == InitStability /\ [][NextCluster]_vars

InitSparsity ==
    /\ pc = "sparsity"
    /\ graph \in Graphs(SpNodes, SUBSET Pairs(SpNodes))
    /\ clusters \in [Pos(SpNodes) -> Pos(SpNodes)]
    /\ sparsity = NoScore
    /\ ClusterIdle
    /\ HubIdle

ScoreCall ==
    /\ pc = "sparsity"
    /\ \E flip \in SUBSET DOMAIN graph.weight :
          sparsity' = sparsity_score(graph, clusters, flip)
    /\ pc' = "sparsity done"
    /\ UNCHANGED <<graph, clusters, clusterVars, hubVars>>

NextSparsity == ScoreCall

SpecSparsity == InitSparsity /\ [][NextSparsity]_vars

(***************************************************************************)
(* Properties of sparsity_score.                                           *)
(***************************************************************************)
ClusterOf(u) == clusters[adj_index(graph.n)[u]]

IntraEdges == {e \in DOMAIN graph.weight : ClusterOf(e[1]) = ClusterOf(e[2])}

CutEdges == DOMAIN graph.weight \ IntraEdges

Negative(E) == {e \in E : graph.weight[e] < 0}

Positive(E) == {e \in E : graph.weight[e] > 0}

\* C6: for every graph, with any number of edges, and every assignment,
\* sparsity_score returns a value between -1 and 1.
C6_ScoreWithinMinusOneAndOne ==
    pc = "sparsity done" =>
        /\ sparsity.raised = "no"
        /\ -sparsity.den <= sparsity.num
        /\ sparsity.num <= sparsity.den

Finished == pc \in {"returned", "raised", "done"}

HasEdges == DOMAIN graph.weight # {}

\* cluster_hard has scored the baseline and every candidate
HardScored == ~memory /\ Len(scores) = max_clusters - min_clusters + 2

\* C1: the final fit of cluster_hard uses the candidate count with the lowest
\* score among the baseline and the candidates, and min_clusters when the
\* baseline has the lowest score; the call returns an assignment of that fit.
C1_RefitAtBestCandidateOrMinimum ==
    (Finished /\ method = KMeansName /\ HardScored) =>
        LET k == IF ArgMin(scores) = 1 THEN min_clusters
                 ELSE min_clusters + ArgMin(scores) - 2
        IN /\ raised = "no"
           /\ topscore = k
           /\ bestcluster \in KMeansLabels(k, graph.n)

\* C2: with a method other than KMeans the call writes the unsupported-method
\* warning and returns an assignment fitted at min_clusters; it raises nothing.
C2_UnsupportedMethodFallsBack ==
    (Finished /\ method # KMeansName /\ HasEdges) =>
        /\ raised = "no"
        /\ "unsupported warning" \in stdout
        /\ bestcluster \in KMeansLabels(min_clusters, graph.n)

\* cluster_fuzzy has scored every snapshot
FuzzyScored == memory /\ method = KMeansName /\ Len(difscores) = Len(diffs)

SomeSeparating == \E x \in 1 .. Len(difscores) : Separating(difscores[x])

\* C3: when no snapshot is separating, cluster_fuzzy ends in an error of its own
\* for that: it returns no assignment and does not end in an indexing fault.
C3_NoSeparatingSnapshotIsReported ==
    (Finished /\ FuzzyScored /\ ~SomeSeparating) =>
        /\ raised # "no"
        /\ raised # "IndexError"

\* the labels of the fit on the last separating snapshot
LastLabels == sep_clusters[Len(sep_clusters)]

\* C4: with one separating snapshot or more, cluster_fuzzy returns an assignment
\* of length n in which every node without the sentinel has the cluster id of the
\* fit on the last separating snapshot at that snapshot's best cluster count.
C4_LastSeparatingSnapshotDecides ==
    (Finished /\ FuzzyScored /\ SomeSeparating) =>
        /\ raised = "no"
        /\ DOMAIN bestcluster = Pos(graph.n)
        /\ LastLabels \in
              KMeansLabels(topscores[separating_iters[Len(separating_iters)] + 1], graph.n)
        /\ \A p \in Pos(graph.n) : bestcluster[p] # Sentinel => bestcluster[p] = LastLabels[p]

\* the earlier separating snapshots that are used: all but the first and the last
Earlier == 0 .. (Len(sep_clusters) - 2)

\* those of them in which the cluster of the node at p is mapped to its final one
Matching(p) == {x \in Earlier : sep_clusters[x + 1][p] \in clusdict[LastLabels[p]][x]}

\* C5: the stability fraction of a node is the number of earlier separating
\* snapshots (the first skipped, the last left out) in which its cluster is
\* mapped to its final cluster, over the number of those snapshots; it lies in
\* [0, 1]; the node's label is the sentinel exactly when the fraction is below
\* 0.5 and its final cluster id otherwise; a node that matches in no earlier
\* snapshot has fraction 0 and the sentinel.
C5_StabilityFractionAndSentinel ==
    (memory /\ pc \in {"returned", "done"}) =>
        \A p \in Pos(graph.n) :
            /\ ~DoubleLess(DoubleOne, clusprobs[p])
            /\ bestcluster[p] = Sentinel <=>
                  2 * Cardinality(Matching(p)) < Cardinality(Earlier) \/ Earlier = {}
            /\ bestcluster[p] # Sentinel => bestcluster[p] = LastLabels[p]
            /\ Matching(p) = {} => (clusprobs[p] = DoubleZero /\ bestcluster[p] = Sentinel)

\* a return after twelve earlier snapshots, in six of which a node matched
C5_HalfOfTwelve ==
    /\ memory
    /\ pc = "returned"
    /\ Cardinality(Earlier) = 12
    /\ \E p \in Pos(graph.n) : Cardinality(Matching(p)) = 6

\* the snapshot (from 0) that the x-th used label vector was fitted on
UsedSnapshot(x) == separating_iters[x + 1]

\* the nodes that share the cluster of the node at p in the x-th label vector
Members(x, p) == {q \in Pos(graph.n) : sep_clusters[x][q] = sep_clusters[x][p]}

\* C10: for every separating snapshot that is used, label m of the label vector
\* denotes the m-th centroid (both come from one fit); so a node whose cluster
\* has the same members in every used snapshot never gets the sentinel.
C10_LabelsAndCentroidsFromOneFit ==
    (memory /\ pc \in {"fuzzy fit", "returned", "done"}) =>
        /\ \A x \in 1 .. Len(centroids) :
              centroids[x] = cluster_centers(sep_clusters[x], diffs[UsedSnapshot(x) + 1],
                                             topscores[UsedSnapshot(x) + 1], graph.n)
        /\ (pc # "fuzzy fit" /\ Len(sep_clusters) >= 2) =>
              \A p \in Pos(graph.n) :
                  (\A x \in 1 .. Len(sep_clusters) :
                        Members(x, p) = Members(Len(sep_clusters), p))
                     => bestcluster[p] # Sentinel

(***************************************************************************)
(* central_edge.  The score matrix is what diffusion(graph, iterations=3,  *)
(* norm=False) returns (manta.perms): a symmetric matrix over the matrix   *)
(* positions.  A threshold is kept as 100 times its value.                 *)
(***************************************************************************)
Cells(n) == Pos(n) \X Pos(n)

\* the k-th smallest entry (from 0) of the flattened matrix
Sorted(mat, n, k) ==
    CHOOSE v \in {mat[c] : c \in Cells(n)} :
        /\ Cardinality({c \in Cells(n) : mat[c] < v}) <= k
        /\ k < Cardinality({c \in Cells(n) : mat[c] <= v})

\* 100 * np.percentile(mat, q): linear interpolation between the two entries
\* next to position q / 100 * (N - 1) of the sorted entries
Percentile100(mat, n, q) ==
    LET last == n * n - 1
        lo == (q * last) \div 100
        fraction == (q * last) % 100
        hi == IF lo < last THEN lo + 1 ELSE lo
    IN 100 * Sorted(mat, n, lo) + fraction * (Sorted(mat, n, hi) - Sorted(mat, n, lo))

\* line 107 with < in place of <=
NegHubsStrict(mat, n, q) ==
    LET negthresh == Percentile100(mat, n, q)
    IN {c \in Cells(n) : 100 * mat[c] < negthresh}

\* lines 105, 107: np.argwhere(scoremat <= negthresh)
NegHubs(mat, n, q) ==
    LET negthresh == Percentile100(mat, n, q)
    IN {c \in Cells(n) : 100 * mat[c] <= negthresh}

\* lines 106, 108: np.argwhere(scoremat >= posthresh)
PosHubs(mat, n, q) ==
    LET posthresh == Percentile100(mat, n, 100 - q)
    IN {c \in Cells(n) : 100 * mat[c] >= posthresh}

NegativeHub == "negative hub"

PositiveHub == "positive hub"

\* the node pair of a matrix cell: list(graph.nodes)[edge[0]], [edge[1]]
KeyOf(c) == <<NodeAt(c[1]), NodeAt(c[2])>>

\* lines 121-132: edge_vals, the label per node pair; a pair that is in both
\* lists is written twice and keeps the second label
edge_vals(neghubs, poshubs) ==
    [key \in {KeyOf(c) : c \in neghubs \cup poshubs} |->
        IF \E c \in poshubs : KeyOf(c) = key THEN PositiveHub ELSE NegativeHub]

\* the place of a key in the dict: the pairs of neghubs in the row-major order of
\* np.argwhere, then the pairs that poshubs adds, in that order
KeyPlace(key, neghubs, n) ==
    LET row == adj_index(n)[key[1]]
        col == adj_index(n)[key[2]]
    IN IF <<row, col>> \in neghubs THEN row * n + col ELSE n * n + row * n + col

\* nx.set_edge_attributes(graph, values, name): the values are written in the
\* order of the dict, to the edges the graph has; (u, v) and (v, u) name one edge
SetEdgeAttributes(g, old, values, neghubs) ==
    [e \in DOMAIN g.weight |->
        LET keys == {key \in DOMAIN values : key = e \/ key = Reverse(e)}
        IN IF keys = {} THEN old[e]
           ELSE values[CHOOSE key \in keys :
                           \A other \in keys :
                               KeyPlace(other, neghubs, g.n) <= KeyPlace(key, neghubs, g.n)]]

\* lines 104-135; the reliability scores come from perm_graph (manta.perms), and
\* only which edges get one is kept
CentralEdge ==
    /\ pc = "central_edge"
    /\ LET neghubs == NegHubs(scoremat, graph.n, percentile)
           poshubs == PosHubs(scoremat, graph.n, percentile)
           vals == edge_vals(neghubs, poshubs)
           edge_scores == [key \in DOMAIN vals |-> "reliability score"]
       IN graph' = [graph EXCEPT
                      !.ehub = SetEdgeAttributes(graph, graph.ehub, vals, neghubs),
                      !.erel = IF permutations > 0
                               THEN SetEdgeAttributes(graph, graph.erel, edge_scores, neghubs)
                               ELSE graph.erel]
    /\ pc' = "central_edge done"
    /\ UNCHANGED <<sparsityVars, clusterVars, hubVars>>

EdNodes == 3       \* nodes of the graphs whose edges are labelled

ScoreValues == {-1, 0, 2}

Percentiles == {0, 10, 50, 90}

\* the symmetric matrices with entries in ScoreValues and one value on the
\* diagonal
ScoreMatrices(n) ==
    {[c \in Cells(n) |-> IF c[1] < c[2] THEN upper[c]
                         ELSE IF c[1] > c[2] THEN upper[<<c[2], c[1]>>]
                         ELSE diagonal] :
        upper \in [{c \in Cells(n) : c[1] < c[2]} -> ScoreValues],
        diagonal \in ScoreValues}

\* the edge sets of the labelled graphs: the subsets of a ring over the nodes
EdEdgeSets ==
    SUBSET {e \in Pairs(EdNodes) : e[2] = e[1] + 1 \/ (e[1] = NodeAt(0) /\ e[2] = NodeAt(EdNodes - 1))}

InitEdge ==
    /\ pc = "central_edge"
    /\ graph \in Graphs(EdNodes, EdEdgeSets)
    /\ \A e \in DOMAIN graph.weight : graph.weight[e] = 1
    /\ scoremat \in ScoreMatrices(EdNodes)
    /\ percentile \in Percentiles
    /\ permutations \in {0, 1}
    /\ SparsityIdle
    /\ ClusterIdle

NextEdge == CentralEdge

SpecEdge == InitEdge /\ [][NextEdge]_vars

\* the matrix entry at the positions of the endpoints of e
Entry(e) == scoremat[<<adj_index(graph.n)[e[1]], adj_index(graph.n)[e[2]]>>]

\* the edges whose entry is at or below the percentile-th percentile
AtOrBelowNeg ==
    LET negthresh == Percentile100(scoremat, graph.n, percentile)
    IN {e \in DOMAIN graph.weight : 100 * Entry(e) <= negthresh}

\* the edges whose entry is at or above the (100 - percentile)-th percentile
AtOrAbovePos ==
    LET posthresh == Percentile100(scoremat, graph.n, 100 - percentile)
    IN {e \in DOMAIN graph.weight : 100 * Entry(e) >= posthresh}

HubLabelled(label) == {e \in DOMAIN graph.weight : graph.ehub[e] = label}

\* C8: an edge is a negative hub exactly when its entry is at or below
\* the percentile-th percentile, a positive hub exactly when it is at or above
\* the (100 - percentile)-th, and has no hub attribute when strictly between.
C8_HubLabelsByThreshold ==
    pc = "central_edge done" =>
        LET below == AtOrBelowNeg
            above == AtOrAbovePos
        IN /\ HubLabelled(NegativeHub) = below
           /\ HubLabelled(PositiveHub) = above
           /\ DOMAIN graph.weight \ (below \cup above) \subseteq HubLabelled(NoAttr)

\* C8, amended: an edge is a positive hub exactly when its entry is at or above
\* the (100 - percentile)-th percentile, a negative hub exactly when its entry is
\* at or below the percentile-th percentile and below the (100 - percentile)-th,
\* and has no hub attribute exactly when its entry is strictly between the two.
C8_PositiveLabelWins ==
    pc = "central_edge done" =>
        LET below == AtOrBelowNeg
            above == AtOrAbovePos
        IN /\ HubLabelled(PositiveHub) = above
           /\ HubLabelled(NegativeHub) = below \ above
           /\ HubLabelled(NoAttr) = DOMAIN graph.weight \ (below \cup above)

\* a labelled graph with a negative hub, and a positive hub whose entry is also
\* at or below the lower threshold
C8_Witness ==
    /\ pc = "central_edge done"
    /\ \E e \in DOMAIN graph.weight : graph.ehub[e] = NegativeHub
    /\ \E e \in DOMAIN graph.weight :
          graph.ehub[e] = PositiveHub /\ e \in AtOrBelowNeg /\ e \in AtOrAbovePos

\* a labelled graph with a negative hub, a positive hub and an edge without label
C8_AllThreeOutcomes ==
    /\ pc = "central_edge done"
    /\ \E e \in DOMAIN graph.weight : graph.ehub[e] = NegativeHub
    /\ \E e \in DOMAIN graph.weight : graph.ehub[e] = PositiveHub
    /\ \E e \in DOMAIN graph.weight : graph.ehub[e] = NoAttr

(***************************************************************************)
(* central_node.  scipy's binom_test(x, n, p, alternative='greater') is    *)
(* the probability of x or more successes in n trials of probability p;    *)
(* with p = h / m it is kept as an exact fraction.                         *)
(***************************************************************************)
RECURSIVE Binomial(_, _)
Binomial(n, k) ==
    IF k = 0 \/ k = n THEN 1 ELSE Binomial(n - 1, k - 1) + Binomial(n - 1, k)

RECURSIVE UpperTail(_, _, _, _)
\* the sum over t in x..n of C(n, t) * h^t * (m - h)^(n - t)
UpperTail(x, n, h, m) ==
    IF x > n THEN 0
    ELSE Binomial(n, x) * Power(h, x) * Power(m - h, n - x) + UpperTail(x + 1, n, h, m)

binom_test(x, n, h, m) == Frac(UpperTail(x, n, h, m), Power(m, n))

\* line 168: the level below which a node is a hub
Alpha == Frac(1, 20)

\* line 149: nx.get_edge_attributes(graph, "hub")
HubEdges(g) == {e \in DOMAIN g.weight : g.ehub[e] # NoAttr}

\* lines 150-154: the endpoints of the hub edges
Hubs(g) == {e[1] : e \in HubEdges(g)} \cup {e[2] : e \in HubEdges(g)}

\* graph[node]: the edges at a node
Incident(g, node) == {e \in DOMAIN g.weight : e[1] = node \/ e[2] = node}

\* lines 158-161 with only the positive hubs counted
hub_edges_positive(g, node) ==
    Cardinality({e \in Incident(g, node) : g.ehub[e] = PositiveHub})

\* lines 158-161: the edges at the node that have a hub attribute
hub_edges(g, node) == Cardinality({e \in Incident(g, node) : g.ehub[e] # NoAttr})

\* lines 166-167
pval(g, node) ==
    binom_test(hub_edges(g, node), Cardinality(Incident(g, node)),
               Cardinality(HubEdges(g)), Cardinality(DOMAIN g.weight))

HubLabel == "hub"

\* lines 149-172
CentralNode ==
    /\ pc = "central_node"
    /\ LET sighubs == {node \in Hubs(graph) : FracLess(pval(graph, node), Alpha)}
       IN graph' = [graph EXCEPT
                      !.nhub = [u \in Nodes(graph.n) |->
                                   IF u \in sighubs THEN HubLabel ELSE graph.nhub[u]],
                      !.npval = [u \in DOMAIN graph.npval \cup sighubs |->
                                   IF u \in sighubs THEN pval(graph, u) ELSE graph.npval[u]]]
    /\ pc' = "central_node done"
    /\ UNCHANGED <<sparsityVars, clusterVars, hubVars>>

HubNodes == 5       \* nodes of the graphs whose nodes are tested

MaxHubEdges == 4    \* hub edges of such a graph

\* the complete graph, and the complete graph less one edge at the first node
HubEdgeSets ==
    {Pairs(HubNodes)} \cup {Pairs(HubNodes) \ {e} : e \in {f \in Pairs(HubNodes) : f[1] = NodeAt(0)}}

\* what central_edge leaves on the edges in E: all positive, all negative, or
\* positive and negative by turns
HubLabellings(E) ==
    {[e \in E |-> IF e \notin hubbed THEN NoAttr
                  ELSE IF signs = 0 \/ (signs = 2 /\ (e[1] + e[2]) % 2 = 0)
                       THEN PositiveHub ELSE NegativeHub] :
        hubbed \in {H \in SUBSET E : Cardinality(H) <= MaxHubEdges},
        signs \in 0..2}

InitNode ==
    /\ pc = "central_node"
    /\ \E g \in Graphs(HubNodes, HubEdgeSets) :
          /\ \A e \in DOMAIN g.weight : g.weight[e] = 1
          /\ \E labels \in HubLabellings(DOMAIN g.weight) :
                graph = [g EXCEPT !.ehub = labels]
    /\ SparsityIdle
    /\ ClusterIdle
    /\ HubIdle

NextNode == CentralNode

SpecNode == InitNode /\ [][NextNode]_vars

\* the edges at a node that carry either hub label
LabelledAt(u) ==
    {e \in DOMAIN graph.weight :
        (e[1] = u \/ e[2] = u) /\ graph.ehub[e] \in {PositiveHub, NegativeHub}}

Degree(u) == Cardinality({e \in DOMAIN graph.weight : e[1] = u \/ e[2] = u})

\* the p-value of node u: the test of its hub edges among its edges against the
\* share of hub edges in the graph
ExpectedP(u) ==
    binom_test(Cardinality(LabelledAt(u)), Degree(u),
               Cardinality({e \in DOMAIN graph.weight : graph.ehub[e] \in {PositiveHub, NegativeHub}}),
               Cardinality(DOMAIN graph.weight))

\* C9: after central_node a node is a hub exactly when it is an endpoint of a hub
\* edge (positive or negative) and the one-sided binomial test of its hub-edge
\* count, its degree and the share of hub edges in the graph gives p < 0.05; it
\* has a hub p-value exactly when it is a hub, and the value is that p.
C9_HubIffBinomialTestBelowAlpha ==
    pc = "central_node done" =>
        \A u \in Nodes(graph.n) :
            /\ graph.nhub[u] = HubLabel <=>
                  (LabelledAt(u) # {} /\ 20 * ExpectedP(u).num < ExpectedP(u).den)
            /\ u \in DOMAIN graph.npval <=> graph.nhub[u] = HubLabel
            /\ graph.nhub[u] = HubLabel => graph.npval[u] = ExpectedP(u)

\* a tested graph with a hub that has a positive and a negative hub edge, and an
\* endpoint of a hub edge that is not a hub
C9_Witness ==
    /\ pc = "central_node done"
    /\ \E u \in Nodes(graph.n) :
          /\ graph.nhub[u] = HubLabel
          /\ \E e \in LabelledAt(u) : graph.ehub[e] = PositiveHub
          /\ \E e \in LabelledAt(u) : graph.ehub[e] = NegativeHub
    /\ \E u \in Nodes(graph.n) : LabelledAt(u) # {} /\ graph.nhub[u] = NoAttr

====
